---- MODULE Spec2Model ----
(***************************************************************************)
(* graham_mod_n: a table of Graham's number modulo every i < max.          *)
(*                                                                         *)
(* The model follows src/src/main.rs:                                      *)
(*   modexp         binary modular exponentiation (lines 4-18)             *)
(*   totient_table  in-place totient sieve (lines 24-46)                   *)
(*   graham_table   the forward scan over the reused buffer (lines 50-118) *)
(*                                                                         *)
(* Buffers are functions over 0..len-1.  All values stay far below 2^32    *)
(* for the table sizes explored here, and the products formed by modexp    *)
(* and by the scan are taken in u64 in the source, so no arithmetic wraps. *)
(***************************************************************************)
EXTENDS Integers, FiniteSets, Sequences, TLC

\* Largest table size explored by the scan specification.
MaxN == 30
\* Largest base, exponent and modulus handed to modexp on its own.
MaxBase == 5
MaxExp == 6
MaxMod == 6

VARIABLES
    max,        \* graham_table: the argument `max`
    buf,        \* graham_table: the buffer `buf`, a function over 0..max-1
    n,          \* graham_table: the scan index of `for n in 2..max`
    wlog,       \* the writes the scan has performed, as <<step, index>>
    base,       \* modexp: argument `base`
    exponent,   \* modexp: argument `exponent`
    modulus,    \* modexp: argument `modulus`
    result,     \* modexp: the value returned
    pc          \* position of the program

vars == <<max, buf, n, wlog, base, exponent, modulus, result, pc>>

graham_vars == <<max, buf, n, wlog>>
modexp_vars == <<base, exponent, modulus, result>>

(***************************************************************************)
(* modexp                                                                  *)
(***************************************************************************)

\* The outcome of `%= modulus` with modulus 0: the thread panics and nothing
\* is returned.  Every value modexp returns is >= 0.
DivByZero == -1

\* `exponent & 1 > 0`
LowBitSet(e) == e % 2 = 1

\* The loop of modexp from the state (base, exponent, out).
RECURSIVE modexp_loop(_, _, _, _)
modexp_loop(b, e, m, o) ==
    IF e > 0
    THEN IF m = 0
         THEN DivByZero
         ELSE modexp_loop((b * b) % m,
                          e \div 2,
                          m,
                          IF LowBitSet(e) THEN (o * b) % m ELSE o)
    ELSE o

\* modexp(base, exponent, modulus): `out` starts at 1.
modexp(b, e, m) == modexp_loop(b, e, m, 1)

(***************************************************************************)
(* totient_table                                                           *)
(***************************************************************************)

\* `(0..n).collect()`
identity_table(len) == [i \in 0..(len - 1) |-> i]

\* `out[p] -= 1`
sieve_prime(out, p) == [out EXCEPT ![p] = out[p] - 1]

\* A sieve that subtracts i / p in place of out[i] / p.
sieve_update_by_index(out, i, p) == [out EXCEPT ![i] = out[i] - (i \div p)]

\* `out[i] -= out[i] / p`
sieve_update(out, i, p) == [out EXCEPT ![i] = out[i] - (out[i] \div p)]

\* `while i < n { ...; i += p }`
RECURSIVE sieve_inner(_, _, _, _)
sieve_inner(out, i, p, len) ==
    IF i < len
    THEN sieve_inner(sieve_update(out, i, p), i + p, p, len)
    ELSE out

\* `for p in 2..n { if out[p] == p { ... } }`
RECURSIVE sieve_outer(_, _, _)
sieve_outer(out, p, len) ==
    IF p < len
    THEN sieve_outer(IF out[p] = p
                     THEN sieve_inner(sieve_prime(out, p), 2 * p, p, len)
                     ELSE out,
                     p + 1, len)
    ELSE out

totient_table(len) == sieve_outer(identity_table(len), 2, len)

(***************************************************************************)
(* graham_table                                                            *)
(***************************************************************************)

\* A buffer after a sequence of writes <<index, value>>, applied in order.
RECURSIVE ApplyWrites(_, _)
ApplyWrites(b, ws) ==
    IF ws = <<>>
    THEN b
    ELSE ApplyWrites([b EXCEPT ![Head(ws)[1]] = Head(ws)[2]], Tail(ws))

\* The indices a sequence of writes touches.
WriteIndices(ws) == {ws[k][1] : k \in 1..Len(ws)}

\* `n < max / 3`: the guard of the write ahead of the scan.
writes_ahead(i, len) == i < len \div 3

\* A write ahead that lands on 2 * n, a cell that is no multiple of three.
ahead_index_doubled(i) == 2 * i

\* The index of the write ahead of the scan, `3 * n`.
ahead_index(i) == 3 * i

\* The branch `n % 3 == 0` with the coefficient handed to the next multiple
\* of three, n + 3, in place of 3 * n.
mul3_writes_next_multiple(b, i, len) ==
    LET a == b[i]
        g_mod_n_thirds == b[i \div 3]
        g_mod_n == 3 * ((a * g_mod_n_thirds) % (i \div 3))
    IN  <<  <<i, g_mod_n>> >>
        \o (IF writes_ahead(i, len) THEN << <<i + 3, a>> >> ELSE <<>>)

\* The branch `n % 3 == 0`: the writes of one iteration.
mul3_writes(b, i, len) ==
    LET a == b[i]
        g_mod_n_thirds == b[i \div 3]
        g_mod_n == 3 * ((a * g_mod_n_thirds) % (i \div 3))
    IN  <<  <<i, g_mod_n>> >>
        \o (IF writes_ahead(i, len) THEN << <<ahead_index(i), a>> >> ELSE <<>>)

\* The branch `n % 3 != 0` with the exponent totient_n itself in place of
\* the finalized residue buf[totient_n].
other_writes_raw_exponent(b, i, len) ==
    LET totient_n == b[i]
    IN  <<  <<i, modexp(3, totient_n, i)>> >>
        \o (IF writes_ahead(i, len)
            THEN << <<ahead_index(i), modexp(3, totient_n - 1, i)>> >>
            ELSE <<>>)

\* The branch `n % 3 != 0`: the writes of one iteration.
other_writes(b, i, len) ==
    LET totient_n == b[i]
    IN  <<  <<i, modexp(3, b[totient_n], i)>> >>
        \o (IF writes_ahead(i, len)
            THEN << <<ahead_index(i), modexp(3, totient_n - 1, i)>> >>
            ELSE <<>>)

\* The branch `n % 3 != 0` runs without a fault: `buf[totient_n]` is in
\* bounds and `totient_n - 1` does not underflow.  (An underflow panics in a
\* build with overflow checks and wraps to 2^32 - 1 without them; C9 shows
\* that no scan reaches it.)
other_ok(b, i, len) ==
    /\ b[i] \in DOMAIN b
    /\ (writes_ahead(i, len) => b[i] >= 1)

\* One iteration of `for n in 2..max`.
graham_step(b, i, len) ==
    ApplyWrites(b, IF i % 3 = 0 THEN mul3_writes(b, i, len)
                                ELSE other_writes(b, i, len))

\* The iterations from index i to the end.
RECURSIVE graham_scan(_, _, _)
graham_scan(b, i, len) ==
    IF i < len THEN graham_scan(graham_step(b, i, len), i + 1, len) ELSE b

\* `buf[1] = 0; buf[3] = 0;`
graham_seed(b) == [b EXCEPT ![1] = 0, ![3] = 0]

\* graham_table(max), for the sizes at which the seeding is in bounds.
graham_table(len) == graham_scan(graham_seed(totient_table(len)), 2, len)

(***************************************************************************)
(* The program as a state machine: graham_table(max)                       *)
(***************************************************************************)

Init ==
    /\ max \in 0..MaxN
    /\ buf = << >>
    /\ n = 0
    /\ wlog = {}
    /\ base = 0 /\ exponent = 0 /\ modulus = 0 /\ result = 0
    /\ pc = "start"

\* `let mut buf = totient_table(max);`
CallTotientTable ==
    /\ pc = "start"
    /\ buf' = totient_table(max)
    /\ pc' = "seed1"
    /\ UNCHANGED <<max, n, wlog, modexp_vars>>

\* `buf[1] = 0;`
Seed1 ==
    /\ pc = "seed1"
    /\ 1 \in DOMAIN buf
    /\ buf' = [buf EXCEPT ![1] = 0]
    /\ pc' = "seed3"
    /\ UNCHANGED <<max, n, wlog, modexp_vars>>

\* `buf[1] = 0;` with the index out of bounds
Seed1Panic ==
    /\ pc = "seed1"
    /\ 1 \notin DOMAIN buf
    /\ pc' = "panic"
    /\ UNCHANGED <<graham_vars, modexp_vars>>

\* `buf[3] = 0;` and the entry into the loop
Seed3 ==
    /\ pc = "seed3"
    /\ 3 \in DOMAIN buf
    /\ buf' = [buf EXCEPT ![3] = 0]
    /\ n' = 2
    /\ pc' = "scan"
    /\ UNCHANGED <<max, wlog, modexp_vars>>

\* `buf[3] = 0;` with the index out of bounds
Seed3Panic ==
    /\ pc = "seed3"
    /\ 3 \notin DOMAIN buf
    /\ pc' = "panic"
    /\ UNCHANGED <<graham_vars, modexp_vars>>

\* One iteration with `n % 3 == 0`.
ScanMul3 ==
    /\ pc = "scan"
    /\ n < max
    /\ n % 3 = 0
    /\ buf' = ApplyWrites(buf, mul3_writes(buf, n, max))
    /\ wlog' = wlog \cup {<<n, i>> : i \in WriteIndices(mul3_writes(buf, n, max))}
    /\ n' = n + 1
    /\ UNCHANGED <<max, modexp_vars, pc>>

\* One iteration with `n % 3 != 0`.
ScanOther ==
    /\ pc = "scan"
    /\ n < max
    /\ n % 3 # 0
    /\ IF other_ok(buf, n, max)
       THEN /\ buf' = ApplyWrites(buf, other_writes(buf, n, max))
            /\ wlog' = wlog \cup
                   {<<n, i>> : i \in WriteIndices(other_writes(buf, n, max))}
            /\ n' = n + 1
            /\ pc' = pc
       ELSE /\ pc' = "panic"
            /\ UNCHANGED <<buf, wlog, n>>
    /\ UNCHANGED <<max, modexp_vars>>

\* The loop ends and `buf` is returned.
Return ==
    /\ pc = "scan"
    /\ n >= max
    /\ pc' = "done"
    /\ UNCHANGED <<graham_vars, modexp_vars>>

Next ==
    \/ CallTotientTable
    \/ Seed1
    \/ Seed1Panic
    \/ Seed3
    \/ Seed3Panic
    \/ ScanMul3
    \/ ScanOther
    \/ Return

Spec == Init /\ [][Next]_vars

(***************************************************************************)
(* The program as a state machine: one call of modexp                      *)
(***************************************************************************)

InitModexp ==
    /\ base \in 0..MaxBase
    /\ exponent \in 0..MaxExp
    /\ modulus \in 0..MaxMod
    /\ result = 0
    /\ max = 0 /\ buf = << >> /\ n = 0 /\ wlog = {}
    /\ pc = "modexp_call"

\* The call returns `out as u32`.
ModexpReturn ==
    /\ pc = "modexp_call"
    /\ modexp(base, exponent, modulus) # DivByZero
    /\ result' = modexp(base, exponent, modulus)
    /\ pc' = "modexp_returned"
    /\ UNCHANGED <<graham_vars, base, exponent, modulus>>

\* The call panics on a remainder by zero.
ModexpPanic ==
    /\ pc = "modexp_call"
    /\ modexp(base, exponent, modulus) = DivByZero
    /\ pc' = "modexp_panic"
    /\ UNCHANGED <<graham_vars, modexp_vars>>

NextModexp ==
    \/ ModexpReturn
    \/ ModexpPanic

SpecModexp == InitModexp /\ [][NextModexp]_vars

(***************************************************************************)
(* Reference definitions, independent of the code                          *)
(***************************************************************************)

RECURSIVE Gcd(_, _)
Gcd(x, y) == IF y = 0 THEN x ELSE Gcd(y, x % y)

\* Euler's totient by counting: the integers of 1..i coprime to i.
Phi(i) == Cardinality({k \in 1..i : Gcd(k, i) = 1})

IsPrime(i) == i >= 2 /\ \A d \in 2..(i - 1) : i % d # 0

\* (b^e) mod m by repeated multiplication.
RECURSIVE NaivePowMod(_, _, _)
NaivePowMod(b, e, m) ==
    IF e = 0 THEN 1 % m ELSE (b * NaivePowMod(b, e - 1, m)) % m

\* The residue mod m of every sufficiently tall tower of 3s.  For an exponent
\* T >= log2(m), 3^T = 3^((T mod phi(m)) + phi(m)) (mod m), coprime or not,
\* and the exponent of a tall tower is itself a tall tower.
RECURSIVE TowerMod(_)
TowerMod(m) ==
    IF m = 1 THEN 0 ELSE NaivePowMod(3, TowerMod(Phi(m)) + Phi(m), m)

\* a is a transitional value for modulus q: a * 3^k = 3^(k-1) (mod q) for all
\* sufficiently large k.  The powers of 3 mod q are periodic from an index
\* below q on, with a period below q, so the k of q+1..2q+1 decide it.
IsTransitional(a, q) ==
    \A k \in (q + 1)..(2 * q + 1) :
        (a * NaivePowMod(3, k, q)) % q = NaivePowMod(3, k - 1, q)

(***************************************************************************)
(* Claims                                                                  *)
(***************************************************************************)

\* C1: when graham_table(max) completes, buf[i] is the residue mod i of a
\* tall tower of 3s, for every i with 1 <= i < max.
C1_TableIsTowerResidue ==
    pc = "done" => \A i \in 1..(max - 1) : buf[i] = TowerMod(i)

\* C2: the entry at a fixed index does not depend on the table size: the
\* table of every smaller size that completes agrees with this one.
C2_StableUnderTruncation ==
    pc = "done" =>
        \A N1 \in 4..max : \A i \in 0..(N1 - 1) : graham_table(N1)[i] = buf[i]

\* C3: for modulus >= 1, modexp returns (base^exponent) mod modulus as
\* repeated multiplication computes it, a value of 0..modulus-1.
C3_ModexpIsPowerMod ==
    (pc = "modexp_returned" /\ modulus >= 1) =>
        /\ result = NaivePowMod(base, exponent, modulus)
        /\ result >= 0
        /\ result < modulus

\* C4: totient_table(max) has length max and entry i is Euler's totient of i
\* for every i with 1 <= i < max; entry 1 is 1 and a prime p holds p - 1.
C4_TotientTableCorrect ==
    pc = "seed1" =>
        /\ DOMAIN buf = 0..(max - 1)
        /\ \A i \in 1..(max - 1) : buf[i] = Phi(i)
        /\ (max > 1 => buf[1] = 1)
        /\ \A p \in 2..(max - 1) : IsPrime(p) => buf[p] = p - 1

C4_Witness ==
    pc = "seed1" /\ max = MaxN /\ buf[12] = 4 /\ buf[7] = 6

\* C5: for every max > 1, graham_table(max) completes, entry 1 of the table
\* is 0, and entry 2, when there is one, is 1.
C5_BaseCases ==
    max > 1 =>
        /\ pc # "panic"
        /\ pc = "done" => (buf[1] = 0 /\ (max > 2 => buf[2] = 1))

\* C6: a call of modexp with modulus 0 never returns a value.
C6_ZeroModulusFaults ==
    modulus = 0 => pc # "modexp_returned"

\* C7 as stated: graham_table(10) holds 0, 1, 0, 1, 1, 0 at indices 1..6.
C7_Original ==
    (pc = "done" /\ max = 10) =>
        /\ buf[1] = 0 /\ buf[2] = 1 /\ buf[3] = 0
        /\ buf[4] = 1 /\ buf[5] = 1 /\ buf[6] = 0

\* C7: graham_table(10) holds 0, 1, 0, 3, 2, 3 at indices 1..6.
C7_TableOfTen ==
    (pc = "done" /\ max = 10) =>
        /\ buf[1] = 0 /\ buf[2] = 1 /\ buf[3] = 0
        /\ buf[4] = 3 /\ buf[5] = 2 /\ buf[6] = 3

C7_Witness ==
    pc = "done" /\ max = 10 /\ buf[6] = 3 /\ n = 10

\* C8: before every iteration of the scan, each cell i that is a multiple of
\* three with n <= i < 3n and i < max holds a transitional value for i.
C8_TransitionalRegime ==
    pc = "scan" =>
        \A i \in n..(max - 1) :
            (i % 3 = 0 /\ i < 3 * n) => IsTransitional(buf[i], i \div 3)

\* C9: at every iteration with n not a multiple of three, buf[n] is still the
\* totient of n and satisfies 1 <= buf[n] < n, so that totient_n - 1 does not
\* underflow and buf[totient_n] is a finalized cell.
C9_TotientStillThere ==
    /\ pc # "panic" \/ max < 4
    /\ (pc = "scan" /\ n < max /\ n % 3 # 0) =>
          /\ buf[n] = Phi(n)
          /\ buf[n] >= 1
          /\ buf[n] < n

C9_Witness ==
    pc = "scan" /\ n = 7 /\ max = MaxN /\ buf[n] = 6 /\ <<2, 6>> \in wlog

\* C10: step n writes only buf[n] and possibly buf[3n] and changes no other
\* cell; a cell is written ahead of the scan at most once, by step i/3 of a
\* multiple of three i, before its own step; a cell below n is not written
\* at or after step n.
C10_StepFrame ==
    [][(pc = "scan" /\ pc' = "scan") =>
          /\ \A i \in DOMAIN buf :
                buf'[i] # buf[i] => (i = n \/ i = 3 * n)
          /\ wlog' \ wlog \subseteq {<<n, n>>, <<n, 3 * n>>}
          /\ <<n, n>> \in wlog'
          /\ \A w \in wlog' \ wlog : w[2] >= n
          /\ \A i \in DOMAIN buf : i < n => buf'[i] = buf[i]]_vars

\* C10: the write log as a whole: every write is the finalizing write of its
\* own step or the write ahead to three times the step, and only steps
\* already taken have written.
C10_WriteLog ==
    pc \in {"scan", "done"} =>
        \A w \in wlog :
            /\ w[1] < n
            /\ w[2] = w[1] \/ w[2] = 3 * w[1]
            /\ w[2] < max

C10_Frame == C10_StepFrame /\ []C10_WriteLog

C10_Witness ==
    pc = "done" /\ max = MaxN /\ {<<3, 9>>, <<9, 9>>, <<9, 27>>, <<27, 27>>} \subseteq wlog

====
